---- MODULE Spec2Model ----
(***************************************************************************)
(* Model of main.go: a single run samples CPU, memory and disk usage,      *)
(* writes the sample as a two-row CSV file and mails the file over SMTP    *)
(* with a bounded retry loop.                                              *)
(*                                                                         *)
(* Representation choices:                                                 *)
(*  - time.Time is the number of seconds since 2024-01-01T00:00:00Z;       *)
(*  - float64 percentages are fixed-point integers in millionths of a     *)
(*    percent (12.5 is 12500000), which "%f" prints exactly;               *)
(*  - the value of an environment variable is a sequence of one-character  *)
(*    strings so that strconv.Atoi can be modelled by parsing; a variable  *)
(*    is {} when unset and {value} when set;                               *)
(*  - the file system is a set of existing directories and a function      *)
(*    from existing file paths to their rows.                              *)
(***************************************************************************)
EXTENDS Integers, Sequences, FiniteSets, TLC

\* ------------------------------------------------------------------ bounds

\* Latest start of a run, in seconds since midnight.
MaxStart == 1
\* Largest logical core count the host reports.
MaxCores == 2
\* Number of saveSystemMetrics calls made in the Writer specification.
MaxCalls == 2

\* --------------------------------------------------------- program constants

\* main.go:128
maxRetries == 3
\* main.go:129 (seconds)
retryDelay == 5
\* main.go:33: cpu.Percent blocks for time.Second
sampleWindow == 1

\* ------------------------------------------------------------- formatting

Digits == <<"0", "1", "2", "3", "4", "5", "6", "7", "8", "9">>

RECURSIVE FormatNat(_)
\* fmt.Sprintf("%d", n) for n >= 0
FormatNat(n) ==
    IF n < 10 THEN Digits[n + 1]
    ELSE FormatNat(n \div 10) \o Digits[(n % 10) + 1]

\* fmt.Sprintf("%d", n)
FormatD(n) == IF n < 0 THEN "-" \o FormatNat(0 - n) ELSE FormatNat(n)

RECURSIVE Pad(_, _)
\* s left-padded with zeros to width w
Pad(s, w) == IF Len(s) >= w THEN s ELSE Pad("0" \o s, w)

\* fmt.Sprintf("%f", x), x in millionths: six decimal digits
FormatF(x) == FormatNat(x \div 1000000) \o "." \o Pad(FormatNat(x % 1000000), 6)

\* hh, mm, ss of a time of day
Hour(t) == (t \div 3600) % 24
Minute(t) == (t \div 60) % 60
Second(t) == t % 60

\* t.Format(time.RFC3339), UTC
FormatRFC3339(t) ==
    "2024-01-01T" \o Pad(FormatNat(Hour(t)), 2) \o ":" \o Pad(FormatNat(Minute(t)), 2)
        \o ":" \o Pad(FormatNat(Second(t)), 2) \o "Z"

\* t.Format("2006-01-02_150405")
FormatStamp(t) ==
    "2024-01-01_" \o Pad(FormatNat(Hour(t)), 2) \o Pad(FormatNat(Minute(t)), 2)
        \o Pad(FormatNat(Second(t)), 2)

\* ------------------------------------------------------------ environment

Unset == {}
Set(v) == {v}

\* os.Getenv: the value, or the empty string when the variable is unset
Getenv(e, k) == IF e[k] = {} THEN <<>> ELSE CHOOSE v \in e[k] : TRUE

IsDigit(c) == \E d \in 1..10 : Digits[d] = c
DigitVal(c) == (CHOOSE d \in 1..10 : Digits[d] = c) - 1

RECURSIVE ParseDigits(_, _)
ParseDigits(s, acc) ==
    IF s = <<>> THEN acc ELSE ParseDigits(Tail(s), acc * 10 + DigitVal(Head(s)))

\* the digits of s after an optional sign
Unsigned(s) == IF s # <<>> /\ Head(s) \in {"+", "-"} THEN Tail(s) ELSE s

\* strconv.Atoi: [ok, val]
Atoi(s) ==
    LET body == Unsigned(s) IN
    IF body = <<>> \/ \E k \in 1..Len(body) : ~IsDigit(body[k])
    THEN [ok |-> FALSE, val |-> 0]
    ELSE [ok |-> TRUE,
          val |-> IF Head(s) = "-" THEN 0 - ParseDigits(body, 0) ELSE ParseDigits(body, 0)]

\* the values SMTP_PORT takes in the process environment or the .env file
PortTexts == { <<>>, <<"a", "b", "c">>, <<"2", "5", "x">>, <<"5", "8", "7">> }

\* DIRECTORY_PATH prefixes: each is [text, dir], dir being the directory that
\* holds text \o "metrics_....csv"
Prefixes ==
    { [text |-> "", dir |-> "."],
      [text |-> "out", dir |-> "."],
      [text |-> "./reports/", dir |-> "./reports"],
      [text |-> "/data/out/", dir |-> "/data/out"] }

\* os.Getenv for DIRECTORY_PATH, whose value is kept as a string
GetenvText(e, k) == IF e[k] = {} THEN "" ELSE CHOOSE v \in e[k] : TRUE

ReportsDir == "./reports"

\* fmt.Sprintf("%smetrics_%s.csv", prefix, stamp)
FileNameOf(prefix, stamp) == prefix \o "metrics_" \o stamp \o ".csv"

StartTimes == 0..MaxStart

\* the directory that holds file f
PathDir(f) ==
    CHOOSE d \in {p.dir : p \in Prefixes} :
        \E p \in Prefixes, t \in StartTimes :
            f = FileNameOf(p.text, FormatStamp(t)) /\ d = p.dir

\* ------------------------------------------------------------ the sampler

\* results of cpu.Percent(time.Second, false): one aggregate percentage
CpuPercents == { <<0>>, <<12500000>> }
\* results of cpu.Counts(true)
CpuCounts == 1..MaxCores
\* results of mem.VirtualMemory()
MemStats == { [UsedPercent |-> 40000000, Total |-> 1000, Free |-> 600, Used |-> 400] }
\* results of disk.Usage("/")
DiskStats ==
    { [UsedPercent |-> 55000000, Total |-> 2000, Free |-> 900, Used |-> 1100],
      [UsedPercent |-> 100000000, Total |-> 2000, Free |-> 0, Used |-> 2000] }

Nil == [nil |-> TRUE]

\* the SystemMetrics literal getSystemMetrics returns
NewSystemMetrics(t, cpuPercent, cpuCount, memoryUsage, diskUsage) ==
    [ Timestamp   |-> t,
      CPUCount    |-> cpuCount,
      CPUUsage    |-> cpuPercent[1],
      MemoryUsage |-> memoryUsage.UsedPercent,
      MemoryTotal |-> memoryUsage.Total,
      MemoryFree  |-> memoryUsage.Free,
      MemoryUsed  |-> memoryUsage.Used,
      DiskUsage   |-> diskUsage.UsedPercent,
      DiskTotal   |-> diskUsage.Total,
      DiskFree    |-> diskUsage.Free,
      DiskUsed    |-> diskUsage.Used ]

\* ------------------------------------------------------------- the writer

Header ==
    << "Timestamp", "CPUCount", "CPUUsage", "MemoryUsage", "MemoryTotal", "MemoryFree",
       "MemoryUsed", "DiskUsage", "DiskTotal", "DiskFree", "DiskUsed" >>

\* the data row saveSystemMetrics writes
DataRow(m) ==
    << FormatRFC3339(m.Timestamp),
       FormatD(m.CPUCount),
       FormatF(m.CPUUsage),
       FormatF(m.MemoryUsage),
       FormatD(m.MemoryTotal),
       FormatD(m.MemoryFree),
       FormatD(m.MemoryUsed),
       FormatF(m.DiskUsage),
       FormatD(m.DiskTotal),
       FormatD(m.DiskFree),
       FormatD(m.DiskUsed) >>

\* I/O faults the host can inject into one saveSystemMetrics call:
\*   mkdir   os.MkdirAll fails          create  os.Create fails (EACCES, ...)
\*   write   writer.Write of the data row returns an error
\*   flush   writer.Flush fails before any byte reaches the file
\*   short   writer.Flush fails after the header row reached the file
Faults == {"none", "mkdir", "create", "write", "flush", "short"}

\* os.MkdirAll(dir, 0755) on the directory set ds: existing directories are tolerated
MkdirAll(ds, dir) == ds \cup {dir}

\* the directory saveSystemMetrics ensures
SaveDir == ReportsDir

\* os.Create(f) with O_TRUNC appending instead of truncating
CreateAppending(fs, f) == IF f \in DOMAIN fs THEN fs ELSE (f :> <<>>) @@ fs
\* os.Create(f): the file exists and is empty afterwards
Create(fs, f) == (f :> <<>>) @@ fs

\* file f with the rows appended
Append2(fs, f, rows) == [fs EXCEPT ![f] = @ \o rows]

\* saveSystemMetrics(m, f) on file system [dirs, files] under fault:
\* the file system afterwards, the lines logged and the step that failed
saveSystemMetrics(ds, fs, m, f, fault) ==
    IF fault = "mkdir"
    THEN [dirs |-> ds, files |-> fs, err |-> "mkdir",
          log |-> <<"Error creating reports directory">>]
    ELSE LET ds1 == MkdirAll(ds, SaveDir) IN
    IF fault = "create" \/ PathDir(f) \notin ds1
    THEN [dirs |-> ds1, files |-> fs,
          err |-> IF PathDir(f) \notin ds1 THEN "enoent" ELSE "create",
          log |-> <<"Error creating metrics file">>]
    ELSE LET fs1 == Create(fs, f) IN
    IF fault = "write"
    THEN [dirs |-> ds1, files |-> fs1, err |-> "write",
          log |-> <<"Error writing to metrics file">>]
    ELSE IF fault = "flush"
    THEN [dirs |-> ds1, files |-> fs1, err |-> "flush", log |-> <<>>]
    ELSE IF fault = "short"
    THEN [dirs |-> ds1, files |-> Append2(fs1, f, <<Header>>), err |-> "flush", log |-> <<>>]
    ELSE [dirs |-> ds1, files |-> Append2(fs1, f, <<Header, DataRow(m)>>),
          err |-> "none", log |-> <<>>]


\* ------------------------------------------------------------------ state

VARIABLES
    pc,        \* position of the run: main, cpuPercent, cpuCounts, virtualMemory,
               \* diskUsage, save, loadEnv, parsePort, loop, dial, sleep, done, halted
    now,       \* the clock
    env,       \* the process environment: DIRECTORY_PATH, SMTP_PORT
    dotenv,    \* the .env file: Nil when absent, else the variables it sets
    dirs,      \* existing directories
    files,     \* existing files and their rows
    fileName,  \* main's fileName
    locals,    \* getSystemMetrics' locals gathered so far
    metrics,   \* the snapshot, Nil before a successful sample
    calls,     \* the saveSystemMetrics calls made: <<[m, file, err]>>
    mailArg,   \* the arguments of the sendMetricsToEmail call, <<>> before it is made
    message,   \* the gomail message, Nil before it is built
    dialer,    \* the gomail dialer, Nil before it is built
    i,         \* the retry loop's counter
    events,    \* the Mailer's transport history: "fail", "sleep", "ok"
    log,       \* lines written by the log package
    exitCode   \* the status the process exits with

vars ==
    << pc, now, env, dotenv, dirs, files, fileName, locals, metrics, calls, mailArg,
       message, dialer, i, events, log, exitCode >>

NoFiles == [f \in {} |-> <<>>]

Cwd == "."

InitialDirs == { {Cwd} \cup s : s \in SUBSET {ReportsDir, "/data/out"} }

EnvValues ==
    [ DIRECTORY_PATH : {Unset} \cup {Set(p.text) : p \in {q \in Prefixes : q.text # ""}},
      SMTP_PORT : {Unset} \cup {Set(v) : v \in PortTexts} ]

DotenvValues ==
    {Nil} \cup [ SMTP_PORT : {Unset, Set(<<"2", "5", "2", "5">>), Set(<<"x">>)} ]

Init ==
    /\ pc = "main"
    /\ now \in StartTimes
    /\ env \in EnvValues
    /\ dotenv \in DotenvValues
    /\ dirs \in InitialDirs
    /\ files = NoFiles
    /\ fileName = ""
    /\ locals = <<>>
    /\ metrics = Nil
    /\ calls = <<>>
    /\ mailArg = <<>>
    /\ message = Nil
    /\ dialer = Nil
    /\ i = 0
    /\ events = <<>>
    /\ log = <<>>
    /\ exitCode = 0

\* ------------------------------------------------------------ control flow

\* main returns: the process exits with status 0
ReturnFromMain == [pc |-> "done", exitCode |-> 0]

\* log.Fatalf: os.Exit(1) after the line is logged
Fatalf == [pc |-> "halted", exitCode |-> 1]

\* main with the error check of the sample missing its return
OnSampleErrorFallThrough == [pc |-> "save", exitCode |-> 0]
\* main with the sampling error made fatal
OnSampleErrorFatal == Fatalf
\* main.go:150-153: a sampling error is logged and main returns
OnSampleError == ReturnFromMain

\* main with the Writer's failure propagated
AfterSaveChecked(err) == IF err = "none" THEN [pc |-> "loadEnv"] ELSE [pc |-> "done"]
\* main.go:155-158: saveSystemMetrics returns nothing; the Mailer is called next
AfterSave(err) == [pc |-> "loadEnv"]

\* the loop condition with <= for <
LoopCondInclusive(k) == k <= maxRetries
\* main.go:131: i < maxRetries
LoopCond(k) == k < maxRetries

\* the delay taken after every failure
ShouldSleepAlways(k) == TRUE
\* main.go:134: i < maxRetries-1
ShouldSleep(k) == k < maxRetries - 1

\* the success branch without its return: the loop goes on
OnSentContinue == [pc |-> "loop", exitCode |-> 0]
\* main.go:139-140: success is logged and sendMetricsToEmail returns; main returns
OnSent == ReturnFromMain

\* ---------------------------------------------------------------- actions

\* main.go:146-149: the file name is built and getSystemMetrics is called
Main ==
    /\ pc = "main"
    /\ fileName' = FileNameOf(GetenvText(env, "DIRECTORY_PATH"), FormatStamp(now))
    /\ pc' = "cpuPercent"
    /\ UNCHANGED << now, env, dotenv, dirs, files, locals, metrics, calls, mailArg, message,
                    dialer, i, events, log, exitCode >>

\* a sub-query of getSystemMetrics failed: nil, err is returned and main handles it
SampleFailed ==
    /\ pc' = OnSampleError.pc
    /\ exitCode' = OnSampleError.exitCode
    /\ log' = Append(log, "Error getting system metrics")
    /\ UNCHANGED << env, dotenv, dirs, files, fileName, locals, metrics, calls, mailArg, message,
                    dialer, i, events >>

\* main.go:33-36: cpu.Percent(time.Second, false)
CpuPercent ==
    /\ pc = "cpuPercent"
    /\ now' = now + sampleWindow
    /\ \/ \E v \in CpuPercents :
            /\ locals' = Append(locals, v)
            /\ pc' = "cpuCounts"
            /\ UNCHANGED << env, dotenv, dirs, files, fileName, metrics, calls, mailArg, message,
                            dialer, i, events, log, exitCode >>
       \/ SampleFailed

\* main.go:38-41: cpu.Counts(true)
CpuCount ==
    /\ pc = "cpuCounts"
    /\ UNCHANGED now
    /\ \/ \E v \in CpuCounts :
            /\ locals' = Append(locals, v)
            /\ pc' = "virtualMemory"
            /\ UNCHANGED << env, dotenv, dirs, files, fileName, metrics, calls, mailArg, message,
                            dialer, i, events, log, exitCode >>
       \/ SampleFailed

\* main.go:43-46: mem.VirtualMemory()
VirtualMemory ==
    /\ pc = "virtualMemory"
    /\ UNCHANGED now
    /\ \/ \E v \in MemStats :
            /\ locals' = Append(locals, v)
            /\ pc' = "diskUsage"
            /\ UNCHANGED << env, dotenv, dirs, files, fileName, metrics, calls, mailArg, message,
                            dialer, i, events, log, exitCode >>
       \/ SampleFailed

\* main.go:48-66, 154: disk.Usage("/"); the snapshot is returned and logged
DiskUsage ==
    /\ pc = "diskUsage"
    /\ UNCHANGED now
    /\ \/ \E v \in DiskStats :
            /\ metrics' = NewSystemMetrics(now, locals[1], locals[2], locals[3], v)
            /\ locals' = Append(locals, v)
            /\ log' = Append(log, "Metrics")
            /\ pc' = "save"
            /\ UNCHANGED << env, dotenv, dirs, files, fileName, calls, mailArg, message,
                            dialer, i, events, exitCode >>
       \/ SampleFailed

\* main.go:155-157 and 68-101: saveSystemMetrics(metrics, fileName)
Save ==
    /\ pc = "save"
    /\ \E fault \in Faults :
        LET r == saveSystemMetrics(dirs, files, metrics, fileName, fault) IN
        /\ dirs' = r.dirs
        /\ files' = r.files
        /\ calls' = Append(calls, [m |-> metrics, file |-> fileName, err |-> r.err])
        /\ log' = log \o r.log \o <<"Sending metrics to email">>
        /\ pc' = AfterSave(r.err).pc
    /\ UNCHANGED << now, env, dotenv, fileName, locals, metrics, mailArg, message, dialer, i,
                    events, exitCode >>

\* godotenv.Load on an existing file: variables already set are kept
LoadInto(e, file) == [e EXCEPT !.SMTP_PORT = IF @ = Unset THEN file.SMTP_PORT ELSE @]

\* main.go:158, 104-107: godotenv.Load()
LoadEnv ==
    /\ pc = "loadEnv"
    /\ IF dotenv = Nil
       THEN /\ log' = Append(log, "Error loading .env file")
            /\ pc' = ReturnFromMain.pc
            /\ exitCode' = ReturnFromMain.exitCode
            /\ UNCHANGED env
       ELSE /\ env' = LoadInto(env, dotenv)
            /\ pc' = "parsePort"
            /\ UNCHANGED << log, exitCode >>
    /\ mailArg' = <<fileName>>
    /\ UNCHANGED << now, dotenv, dirs, files, fileName, locals, metrics, calls, message,
                    dialer, i, events >>

\* main.go:109-129: the message is built, SMTP_PORT is parsed, the dialer is built
ParsePort ==
    /\ pc = "parsePort"
    /\ message' = [Subject |-> "System Metrics", Attach |-> fileName]
    /\ LET smtpPort == Atoi(Getenv(env, "SMTP_PORT")) IN
       IF ~smtpPort.ok
       THEN /\ log' = Append(log, "Invalid SMTP port")
            /\ pc' = Fatalf.pc
            /\ exitCode' = Fatalf.exitCode
            /\ UNCHANGED << dialer, i >>
       ELSE /\ dialer' = [port |-> smtpPort.val]
            /\ i' = 0
            /\ pc' = "loop"
            /\ UNCHANGED << log, exitCode >>
    /\ UNCHANGED << now, env, dotenv, dirs, files, fileName, locals, metrics, calls,
                    mailArg, events >>

\* main.go:131, 143: the loop test; sendMetricsToEmail and main return when it fails
LoopTest ==
    /\ pc = "loop"
    /\ IF LoopCond(i)
       THEN pc' = "dial" /\ UNCHANGED exitCode
       ELSE pc' = ReturnFromMain.pc /\ exitCode' = ReturnFromMain.exitCode
    /\ UNCHANGED << now, env, dotenv, dirs, files, fileName, locals, metrics, calls,
                    mailArg, message, dialer, i, events, log >>

\* main.go:132-141: one dialer.DialAndSend(message)
DialAndSend ==
    /\ pc = "dial"
    /\ \E ok \in BOOLEAN :
        IF ok
        THEN /\ events' = Append(events, "ok")
             /\ log' = Append(log, "Email sent successfully")
             /\ pc' = OnSent.pc
             /\ exitCode' = OnSent.exitCode
             /\ UNCHANGED i
        ELSE /\ events' = Append(events, "fail")
             /\ IF ShouldSleep(i)
                THEN /\ log' = log \o << "Attempt " \o FormatD(i + 1) \o ": Error sending email",
                                         "Retrying in 5s..." >>
                     /\ pc' = "sleep"
                     /\ UNCHANGED i
                ELSE /\ log' = Append(log, "Attempt " \o FormatD(i + 1) \o ": Error sending email")
                     /\ pc' = "loop"
                     /\ i' = i + 1
             /\ UNCHANGED exitCode
    /\ UNCHANGED << now, env, dotenv, dirs, files, fileName, locals, metrics, calls,
                    mailArg, message, dialer >>

\* main.go:136, 131: time.Sleep(retryDelay), then i++
Sleep ==
    /\ pc = "sleep"
    /\ now' = now + retryDelay
    /\ events' = Append(events, "sleep")
    /\ i' = i + 1
    /\ pc' = "loop"
    /\ UNCHANGED << env, dotenv, dirs, files, fileName, locals, metrics, calls, mailArg, message,
                    dialer, log, exitCode >>

Next ==
    \/ Main
    \/ CpuPercent
    \/ CpuCount
    \/ VirtualMemory
    \/ DiskUsage
    \/ Save
    \/ LoadEnv
    \/ ParsePort
    \/ LoopTest
    \/ DialAndSend
    \/ Sleep

Spec == Init /\ [][Next]_vars


\* ------------------------------------------- the Writer called repeatedly

\* the snapshot of the end-to-end scenario
ExampleMetrics ==
    [ Timestamp   |-> 0,
      CPUCount    |-> 4,
      CPUUsage    |-> 12500000,
      MemoryUsage |-> 40000000,
      MemoryTotal |-> 1000,
      MemoryFree  |-> 600,
      MemoryUsed  |-> 400,
      DiskUsage   |-> 55000000,
      DiskTotal   |-> 2000,
      DiskFree    |-> 900,
      DiskUsed    |-> 1100 ]

\* snapshots handed to saveSystemMetrics
Snapshots ==
    { ExampleMetrics }
        \cup { NewSystemMetrics(t + sampleWindow, <<0>>, MaxCores,
                    CHOOSE v \in MemStats : TRUE,
                    CHOOSE v \in DiskStats : v.Free = 0) : t \in {MaxStart} }

\* destination paths handed to saveSystemMetrics
SavePaths ==
    { FileNameOf("./reports/", FormatStamp(0)),
      FileNameOf("/data/out/", FormatStamp(0)),
      FileNameOf("", FormatStamp(MaxStart)) }

InitSave ==
    /\ pc = "writer"
    /\ now = 0
    /\ env = [DIRECTORY_PATH |-> Unset, SMTP_PORT |-> Unset]
    /\ dotenv = Nil
    /\ dirs \in InitialDirs
    /\ files = NoFiles
    /\ fileName = ""
    /\ locals = <<>>
    /\ metrics = Nil
    /\ calls = <<>>
    /\ mailArg = <<>>
    /\ message = Nil
    /\ dialer = Nil
    /\ i = 0
    /\ events = <<>>
    /\ log = <<>>
    /\ exitCode = 0

\* main.go:68-101: one call saveSystemMetrics(m, f)
SaveCall ==
    /\ pc = "writer"
    /\ Len(calls) < MaxCalls
    /\ \E m \in Snapshots, f \in SavePaths, fault \in Faults :
        LET r == saveSystemMetrics(dirs, files, m, f, fault) IN
        /\ metrics' = m
        /\ fileName' = f
        /\ dirs' = r.dirs
        /\ files' = r.files
        /\ calls' = Append(calls, [m |-> m, file |-> f, err |-> r.err])
        /\ log' = log \o r.log
    /\ UNCHANGED << pc, now, env, dotenv, locals, mailArg, message, dialer, i, events,
                    exitCode >>

NextSave == SaveCall

SpecSave == InitSave /\ [][NextSave]_vars


\* ------------------------------------------------------------- properties

Terminated == pc \in {"done", "halted"}

RECURSIVE Count(_, _)
\* the number of elements of sequence q that lie in set S
Count(q, S) ==
    IF q = <<>> THEN 0 ELSE (IF Head(q) \in S THEN 1 ELSE 0) + Count(Tail(q), S)

\* DialAndSend calls made so far
Attempts == Count(events, {"fail", "ok"})
\* retry delays taken so far
Delays == Count(events, {"sleep"})
\* the outcomes of the DialAndSend calls, in order
Outcomes == SelectSeq(events, LAMBDA e : e \in {"fail", "ok"})

Logged(line) == \E k \in 1..Len(log) : log[k] = line

\* the text os.Getenv("SMTP_PORT") yields in the current state
PortText == Getenv(env, "SMTP_PORT")

\* C1: when every DialAndSend call fails the Mailer makes exactly 3 attempts
\* and returns normally (the run ends with pc "done", status 0, not halted);
\* no run makes more than 3 attempts.
C1_ThreeAttemptsThenReturn ==
    /\ Attempts <= 3
    /\ (Terminated /\ dialer # Nil /\ Count(events, {"ok"}) = 0)
          => /\ Attempts = 3
             /\ Outcomes = <<"fail", "fail", "fail">>
             /\ pc = "done"
             /\ exitCode = 0

C1_Witness ==
    /\ pc = "done"
    /\ Outcomes = <<"fail", "fail", "fail">>
    /\ Logged("Attempt 3: Error sending email")

\* C2: a delay of 5 seconds is taken only directly after a failed attempt that
\* is followed by another attempt: never after the last allowed attempt, never
\* after a success; every failed attempt but the 3rd is followed by a delay.
\* A transport failing twice and then succeeding ends as fail, sleep, fail,
\* sleep, ok: success on the 3rd attempt, two delays, 10 seconds slept.
C2_DelaysBetweenAttempts ==
    /\ \A k \in 1..Len(events) :
          /\ events[k] = "sleep"
                => /\ k > 1 /\ events[k - 1] = "fail"
                   /\ Count(SubSeq(events, 1, k), {"fail", "ok"}) < 3
                   /\ (k < Len(events) => events[k + 1] \in {"fail", "ok"})
          /\ (events[k] = "fail" /\ k < Len(events)) => events[k + 1] = "sleep"
          /\ events[k] = "ok" => k = Len(events)
    /\ Terminated /\ events # <<>> => events[Len(events)] # "sleep"
    /\ (Terminated /\ Outcomes = <<"fail", "fail", "ok">>)
          => /\ events = <<"fail", "sleep", "fail", "sleep", "ok">>
             /\ Delays = 2
             /\ now = metrics.Timestamp + 2 * retryDelay
             /\ Logged("Email sent successfully")
             /\ log[Len(log)] = "Email sent successfully"
    /\ pc = "sleep" => events # <<>> /\ events[Len(events)] = "fail" /\ Attempts < 3

C2_Witness ==
    /\ pc = "done"
    /\ events = <<"fail", "sleep", "fail", "sleep", "ok">>

C4_Original ==
    (Terminated /\ mailArg # <<>> /\ ~Atoi(PortText).ok)
        => pc = "halted" /\ Attempts = 0 /\ Delays = 0

\* what does hold of an invalid SMTP_PORT: no run with one makes a send attempt
\* or takes a delay
NoAttemptWithBadPort == ~Atoi(PortText).ok => Attempts = 0 /\ Delays = 0

\* and a run that parsed one (the message is built just before) was halted by
\* log.Fatalf
HaltWhenPortParsed ==
    (Terminated /\ message # Nil /\ ~Atoi(PortText).ok) => pc = "halted" /\ exitCode = 1

\* the state part of C5: nothing of the Writer or the Mailer has happened while
\* there is no snapshot, a failed sample ends the run, and the stages run in the
\* order Sampler, Writer, Mailer
SampleGatesLaterStages ==
    /\ metrics = Nil
          => /\ calls = <<>> /\ files = NoFiles
             /\ mailArg = <<>> /\ message = Nil /\ events = <<>>
    /\ Logged("Error getting system metrics")
          => /\ pc = "done" /\ metrics = Nil
             /\ log[Len(log)] = "Error getting system metrics"
    /\ pc \in {"save", "loadEnv", "parsePort", "loop", "dial", "sleep"}
          => metrics # Nil /\ Len(locals) = 4
    /\ mailArg # <<>> => Len(calls) = 1 /\ metrics # Nil
    /\ calls # <<>> => calls[1].m = metrics /\ metrics # Nil

\* C5: when a sub-query of getSystemMetrics fails the run logs and ends
\* without calling the Writer or the Mailer: no step taken without a snapshot
\* creates a directory or a file, and no send attempt is made; the Writer runs
\* only after a successful sample, the Mailer only after the Writer.
C5_SampleFailureEndsRun ==
    /\ []SampleGatesLaterStages
    /\ [][metrics = Nil => dirs' = dirs /\ files' = files]_vars

C5_Witness ==
    /\ pc = "done"
    /\ Logged("Error getting system metrics")
    /\ Len(locals) = 3

\* C6: when saveSystemMetrics fails at directory creation, file creation or
\* the row write, the failure is logged and not propagated: the Mailer is
\* called next, with the path the Writer was given.
C6_SaveFailureNotPropagated ==
    \A k \in 1..Len(calls) :
        calls[k].err # "none"
            => /\ pc # "save"
               /\ pc = "done" => mailArg = <<calls[k].file>>
               /\ mailArg \in {<<>>, <<calls[k].file>>}
               /\ pc \in {"parsePort", "loop", "dial", "sleep", "halted"}
                     => mailArg = <<calls[k].file>>
               /\ calls[k].err = "mkdir" => Logged("Error creating reports directory")
               /\ calls[k].err \in {"create", "enoent"} => Logged("Error creating metrics file")
               /\ calls[k].err = "write" => Logged("Error writing to metrics file")
               /\ Logged("Sending metrics to email")

C6_Witness ==
    /\ calls # <<>> /\ calls[1].err = "write"
    /\ mailArg = <<fileName>>
    /\ Attempts >= 1

\* C7 as stated: for every DIRECTORY_PATH the Writer ensures the directory
\* holding the destination file before it creates the file, so a missing
\* directory never makes the creation fail.
C7_Original ==
    \A k \in 1..Len(calls) :
        calls[k].err # "mkdir"
            => PathDir(calls[k].file) \in dirs /\ calls[k].err # "enoent"

\* C8 as stated: when the .env file cannot be loaded the Mailer still builds
\* the message and sends it with the SMTP variables of the process environment.
C8_Original ==
    (Terminated /\ mailArg # <<>> /\ dotenv = Nil)
        => /\ message # Nil
           /\ Atoi(PortText).ok => Attempts >= 1

\* C10: at most one message is delivered per run: once DialAndSend succeeds,
\* sendMetricsToEmail has returned and no attempt or delay follows.
C10_AtMostOneDelivery ==
    /\ Count(events, {"ok"}) <= 1
    /\ Count(events, {"ok"}) = 1
          => /\ events[Len(events)] = "ok"
             /\ pc = "done"
             /\ log[Len(log)] = "Email sent successfully"

C10_Witness ==
    /\ pc = "done"
    /\ events = <<"fail", "sleep", "ok">>

\* the data row of the end-to-end scenario
ExampleRow ==
    << "2024-01-01T00:00:00Z", "4", "12.500000", "40.000000", "1000", "600", "400",
       "55.000000", "2000", "900", "1100" >>

\* C9: after a successful saveSystemMetrics call the destination file holds
\* exactly two rows, the 11-column header and the data row of that call's
\* snapshot, whatever the file held before: a second call on the same path
\* truncates and rewrites. No file ever holds more than two rows.
C9_TwoRowsAfterSave ==
    /\ \A f \in DOMAIN files : Len(files[f]) <= 2
    /\ (calls # <<>> /\ calls[Len(calls)].err = "none")
          => LET c == calls[Len(calls)] IN
             /\ c.file \in DOMAIN files
             /\ Len(files[c.file]) = 2
             /\ files[c.file][1] = Header /\ Len(files[c.file][1]) = 11
             /\ files[c.file][2] = DataRow(c.m) /\ Len(files[c.file][2]) = 11
             /\ c.m = ExampleMetrics => files[c.file][2] = ExampleRow

C9_Witness ==
    /\ Len(calls) >= 2
    /\ calls[1].file = calls[2].file
    /\ calls[1].err = "none" /\ calls[2].err = "none"
    /\ calls[1].m # calls[2].m
    /\ calls[2].m = ExampleMetrics
    /\ files[calls[2].file] = <<Header, ExampleRow>>


====
